---- MODULE Spec2Model ----
(***************************************************************************)
(* A model of process_data (src/data_processor.py), of the helpers it      *)
(* calls in src/utils.py, and of the per-operator grouping done by its     *)
(* caller (src/app.py).                                                    *)
(*                                                                         *)
(* Text is a sequence of one-character strings (a cell's text) or of       *)
(* words and separators (a column name), so that strip, split, isdigit,    *)
(* int(), float() and the f-string formatting are computed, not assumed.   *)
(* A float is an exact number of hundredths, or nan, or +-inf.             *)
(***************************************************************************)
EXTENDS Integers, Sequences, FiniteSets, TLC

\* ------------------------------------------------------------------ bounds
MaxRows == 3

\* ------------------------------------------------------------ text helpers
Whitespace == {" ", "\n", "\t"}

DigitChars == <<"0", "1", "2", "3", "4", "5", "6", "7", "8", "9">>

IsDigitChar(c) == \E i \in 1..10 : DigitChars[i] = c

DigitVal(c) == (CHOOSE i \in 1..10 : DigitChars[i] = c) - 1

\* str.strip(): drop leading and trailing whitespace
RECURSIVE LStrip(_)
LStrip(s) == IF s # <<>> /\ Head(s) \in Whitespace THEN LStrip(Tail(s)) ELSE s

RECURSIVE RStrip(_)
RStrip(s) ==
    IF s # <<>> /\ s[Len(s)] \in Whitespace THEN RStrip(SubSeq(s, 1, Len(s) - 1)) ELSE s

Strip(s) == RStrip(LStrip(s))

\* str.replace(a, b) for one-element a and b
ReplaceChar(s, a, b) == [i \in 1..Len(s) |-> IF s[i] = a THEN b ELSE s[i]]

\* str.replace(a, "")
RemoveChar(s, a) == SelectSeq(s, LAMBDA c : c # a)

HasChar(s, c) == \E i \in 1..Len(s) : s[i] = c

\* str.split(sep)[0]
FirstPart(s, sep) ==
    IF HasChar(s, sep)
    THEN SubSeq(s, 1, (CHOOSE i \in 1..Len(s) : s[i] = sep /\ \A j \in 1..(i - 1) : s[j] # sep) - 1)
    ELSE s

\* str.isdigit(): non-empty and all digits
IsDigit(s) == s # <<>> /\ \A i \in 1..Len(s) : IsDigitChar(s[i])

\* int(s) for a string of digits
RECURSIVE DigitsToInt(_)
DigitsToInt(s) ==
    IF s = <<>> THEN 0 ELSE 10 * DigitsToInt(SubSeq(s, 1, Len(s) - 1)) + DigitVal(s[Len(s)])

\* str(n) for n >= 0
RECURSIVE NatToStr(_)
NatToStr(n) ==
    IF n < 10 THEN <<DigitChars[n + 1]>> ELSE NatToStr(n \div 10) \o <<DigitChars[(n % 10) + 1]>>

IntToStr(n) == IF n < 0 THEN <<"-">> \o NatToStr(-n) ELSE NatToStr(n)

\* f"{n:02d}"
Fmt02(n) == IF 0 <= n /\ n < 10 THEN <<"0">> \o NatToStr(n) ELSE IntToStr(n)

\* ------------------------------------------------------------------ floats
Fin(c) == [k |-> "fin", c |-> c]
NaN == [k |-> "nan"]
Inf(neg) == [k |-> "inf", neg |-> neg]
ParseError == [k |-> "err"]

LowerChar(c) ==
    CASE c = "I" -> "i" [] c = "N" -> "n" [] c = "F" -> "f" [] c = "A" -> "a"
      [] c = "T" -> "t" [] c = "Y" -> "y" [] OTHER -> c

LowerText(s) == [i \in 1..Len(s) |-> LowerChar(s[i])]

\* digits [ "." digits ] with at least one digit, as hundredths (at most two
\* decimals are kept exactly; the cells of this model carry no more)
DecimalValue(s) ==
    LET ip == FirstPart(s, ".")
        fp == IF HasChar(s, ".") THEN SubSeq(s, Len(ip) + 2, Len(s)) ELSE <<>>
        okI == ip = <<>> \/ IsDigit(ip)
        okF == fp = <<>> \/ (IsDigit(fp) /\ Len(fp) <= 2)
        frac == IF fp = <<>> THEN 0
                ELSE IF Len(fp) = 1 THEN 10 * DigitsToInt(fp) ELSE DigitsToInt(fp)
    IN  IF okI /\ okF /\ (ip # <<>> \/ fp # <<>>)
        THEN Fin(100 * DigitsToInt(ip) + frac)
        ELSE ParseError

Negate(x) ==
    CASE x.k = "fin" -> Fin(-x.c)
      [] x.k = "inf" -> Inf(~x.neg)
      [] OTHER -> x

\* Python float(str): surrounding whitespace, an optional sign, then a decimal
\* literal or inf / infinity / nan in any case (exponents are not modelled: no
\* cell of this model carries one)
ParseFloatUnsigned(s) ==
    LET l == LowerText(s)
    IN  IF l = <<"n", "a", "n">> THEN NaN
        ELSE IF l = <<"i", "n", "f">> \/ l = <<"i", "n", "f", "i", "n", "i", "t", "y">> THEN Inf(FALSE)
        ELSE DecimalValue(s)

ParseFloat(text) ==
    LET s == Strip(text)
    IN  IF s = <<>> THEN ParseError
        ELSE IF Head(s) = "-" THEN Negate(ParseFloatUnsigned(Tail(s)))
        ELSE IF Head(s) = "+" THEN ParseFloatUnsigned(Tail(s))
        ELSE ParseFloatUnsigned(s)

\* repr of a float: 20.0 -> "20.0", 1234.56 -> "1234.56", nan, inf
FloatToStr(x) ==
    CASE x.k = "nan" -> <<"n", "a", "n">>
      [] x.k = "inf" -> (IF x.neg THEN <<"-">> ELSE <<>>) \o <<"i", "n", "f">>
      [] OTHER ->
            LET a == IF x.c < 0 THEN -x.c ELSE x.c
                f == a % 100
                fs == IF f % 10 = 0 THEN NatToStr(f \div 10)
                      ELSE IF f < 10 THEN <<"0">> \o NatToStr(f) ELSE NatToStr(f)
            IN  (IF x.c < 0 THEN <<"-">> ELSE <<>>) \o NatToStr(a \div 100) \o <<".">> \o fs

\* float addition
FAdd(x, y) ==
    CASE x.k = "nan" \/ y.k = "nan" -> NaN
      [] x.k = "inf" /\ y.k = "inf" -> IF x.neg = y.neg THEN x ELSE NaN
      [] x.k = "inf" -> x
      [] y.k = "inf" -> y
      [] OTHER -> Fin(x.c + y.c)

\* x > 0
FPositive(x) == (x.k = "fin" /\ x.c > 0) \/ (x.k = "inf" /\ ~x.neg)

\* x * 100
FTimes100(x) ==
    CASE x.k = "fin" -> Fin(100 * x.c)
      [] OTHER -> x

\* float ==  (nan is equal to nothing, itself included)
FEq(x, y) == x.k # "nan" /\ y.k # "nan" /\ x = y

\* ------------------------------------------------------------------- cells
\* A cell of the table: missing (NaN / None), an int, a float, a text, a date.
Null == [k |-> "null"]
IntCell(n) == [k |-> "int", n |-> n]
FloatCell(x) == [k |-> "float", x |-> x]
Txt(s) == [k |-> "str", s |-> s]
DateCell(y, m, d) == [k |-> "date", y |-> y, m |-> m, d |-> d]

\* pd.isna / pd.isnull of a scalar
IsNa(c) == c.k = "null" \/ (c.k = "float" /\ c.x.k = "nan")

\* str(value)
StrOf(c) ==
    CASE c.k = "null" -> <<"n", "a", "n">>
      [] c.k = "int" -> IntToStr(c.n)
      [] c.k = "float" -> FloatToStr(c.x)
      [] c.k = "str" -> c.s
      [] c.k = "date" ->
            NatToStr(c.y) \o <<"-">> \o Fmt02(c.m) \o <<"-">> \o Fmt02(c.d)
                \o <<" ", "0", "0", ":", "0", "0", ":", "0", "0">>

\* --------------------------------------------------------------- to_float
\* float(value) of the direct conversion: a ValueError / TypeError is ParseError
DirectFloat(c) ==
    CASE c.k = "int" -> Fin(100 * c.n)
      [] c.k = "float" -> c.x
      [] c.k = "str" -> ParseFloat(c.s)
      [] OTHER -> ParseError

\* the conversion that keeps the dots: value.replace(",", ".")
European_keep_dots(s) == ReplaceChar(s, ",", ".")

\* value.replace(".", "").replace(",", ".")
European(s) == ReplaceChar(RemoveChar(s, "."), ",", ".")

\* value.replace("€", "").replace("$", "").strip()
CleanCurrency(s) == Strip(RemoveChar(RemoveChar(s, "€"), "$"))

to_float(value) ==
    IF IsNa(value) THEN Fin(0)
    ELSE IF DirectFloat(value).k # "err" THEN DirectFloat(value)
    ELSE IF value.k = "str"
         THEN IF ParseFloat(European(value.s)).k # "err"
              THEN ParseFloat(European(value.s))
              ELSE IF ParseFloat(European(CleanCurrency(value.s))).k # "err"
                   THEN ParseFloat(European(CleanCurrency(value.s)))
                   ELSE Fin(0)
    ELSE Fin(0)

\* ---------------------------------------------------------------- calendar
Date(y, m, d) == [y |-> y, m |-> m, d |-> d]

IsLeap(y) == (y % 4 = 0 /\ y % 100 # 0) \/ (y % 400 = 0)

\* every month taken as of thirty days
MonthRange_thirty(y, m) == 30

\* calendar.monthrange(y, m)[1]
MonthRange(y, m) ==
    IF m \in {4, 6, 9, 11} THEN 30
    ELSE IF m = 2 THEN (IF IsLeap(y) THEN 29 ELSE 28)
    ELSE 31

\* datetime(y, m, d) raises ValueError unless this holds
ValidDate(y, m, d) ==
    /\ 1 <= y /\ y <= 9999
    /\ 1 <= m /\ m <= 12
    /\ 1 <= d /\ d <= MonthRange(y, m)

DateLess(a, b) ==
    \/ a.y < b.y
    \/ a.y = b.y /\ a.m < b.m
    \/ a.y = b.y /\ a.m = b.m /\ a.d < b.d

\* strftime("%d/%m/%Y") and the f-string of process_data
FormatDMY(d, m, y) == Fmt02(d) \o <<"/">> \o Fmt02(m) \o <<"/">> \o IntToStr(y)

\* ------------------------------------------- the per-client delivery date
\* a day that was found is <<day>>, a day that was not is <<>> (None)

\* strategy 1: int(float(str(data_val).strip())) kept when in 1..31
Strategy1(data_val) ==
    LET f == ParseFloat(Strip(StrOf(data_val)))
        giorno_val == IF f.c < 0 THEN -((-f.c) \div 100) ELSE f.c \div 100
    IN  IF f.k # "fin" THEN <<>>
        ELSE IF 1 <= giorno_val /\ giorno_val <= 31 THEN <<giorno_val>> ELSE <<>>

\* strategy 2: the first component of a "/"- or else "-"-separated string
Strategy2(data_val) ==
    LET data_str == Strip(StrOf(data_val))
    IN  IF HasChar(data_str, "/")
        THEN (IF IsDigit(FirstPart(data_str, "/"))
              THEN <<DigitsToInt(FirstPart(data_str, "/"))>> ELSE <<>>)
        ELSE IF HasChar(data_str, "-")
        THEN (IF IsDigit(FirstPart(data_str, "-"))
              THEN <<DigitsToInt(FirstPart(data_str, "-"))>> ELSE <<>>)
        ELSE <<>>

\* pd.to_datetime(value, errors='coerce') of one value, <<date>> or <<>> (NaT):
\* a number is nanoseconds after 1 Jan 1970; a text "a.b.yyyy" or "a/b/yyyy" is
\* month a, day b when that is a date and day a, month b otherwise; a text of
\* eight digits is yyyymmdd; any other text is NaT
GenericDate(value) ==
    IF value.k \in {"int", "float"} THEN <<Date(1970, 1, 1)>>
    ELSE IF value.k = "date" THEN <<Date(value.y, value.m, value.d)>>
    ELSE IF value.k # "str" THEN <<>>
    ELSE LET s == Strip(value.s)
             sep == IF HasChar(s, "/") THEN "/" ELSE "."
             a == FirstPart(s, sep)
             rest == SubSeq(s, Len(a) + 2, Len(s))
             b == FirstPart(rest, sep)
             yy == SubSeq(rest, Len(b) + 2, Len(rest))
         IN  IF IsDigit(s) /\ Len(s) = 8
             THEN (IF ValidDate(DigitsToInt(SubSeq(s, 1, 4)), DigitsToInt(SubSeq(s, 5, 6)),
                                DigitsToInt(SubSeq(s, 7, 8)))
                   THEN <<Date(DigitsToInt(SubSeq(s, 1, 4)), DigitsToInt(SubSeq(s, 5, 6)),
                               DigitsToInt(SubSeq(s, 7, 8)))>>
                   ELSE <<>>)
             ELSE IF IsDigit(a) /\ IsDigit(b) /\ IsDigit(yy) /\ Len(yy) = 4
             THEN (IF ValidDate(DigitsToInt(yy), DigitsToInt(a), DigitsToInt(b))
                   THEN <<Date(DigitsToInt(yy), DigitsToInt(a), DigitsToInt(b))>>
                   ELSE IF ValidDate(DigitsToInt(yy), DigitsToInt(b), DigitsToInt(a))
                   THEN <<Date(DigitsToInt(yy), DigitsToInt(b), DigitsToInt(a))>>
                   ELSE <<>>)
             ELSE <<>>

\* strategy 3: the day of the generic parse
Strategy3(data_val) ==
    IF GenericDate(data_val) # <<>> THEN <<GenericDate(data_val)[1].d>> ELSE <<>>

\* the cascade with the generic parse tried before the separated string
ResolveDay_generic_first(data_val) ==
    IF Strategy1(data_val) # <<>> THEN Strategy1(data_val)[1]
    ELSE IF Strategy3(data_val) # <<>> THEN Strategy3(data_val)[1]
    ELSE IF Strategy2(data_val) # <<>> THEN Strategy2(data_val)[1]
    ELSE 1

\* the cascade of strategies, then the default day 1
ResolveDay(data_val) ==
    IF Strategy1(data_val) # <<>> THEN Strategy1(data_val)[1]
    ELSE IF Strategy2(data_val) # <<>> THEN Strategy2(data_val)[1]
    ELSE IF Strategy3(data_val) # <<>> THEN Strategy3(data_val)[1]
    ELSE 1

\* the test without its "0" case
IsSentinelCell_no_zero(data_val) ==
    \/ IsNa(data_val)
    \/ Strip(StrOf(data_val)) = <<>>

\* "empty, 0 or not valid": the cells that get 01/01/1900
IsSentinelCell(data_val) ==
    \/ IsNa(data_val)
    \/ Strip(StrOf(data_val)) = <<>>
    \/ Strip(StrOf(data_val)) = <<"0">>

SentinelEntry == [giorno |-> 1, data |-> Date(1900, 1, 1), data_formattata |-> FormatDMY(1, 1, 1900)]

\* the rule with the cutoff one day early
mese_da_usare_from15(giorno, selected_month) ==
    IF giorno >= 15 THEN selected_month ELSE (selected_month % 12) + 1

mese_da_usare(giorno, selected_month) ==
    IF giorno > 15 THEN selected_month ELSE (selected_month % 12) + 1

anno_da_usare(giorno, selected_year, selected_month) ==
    IF mese_da_usare(giorno, selected_month) < selected_month
    THEN selected_year + 1 ELSE selected_year

\* the last day with every fourth year a leap year
ultimo_giorno_julian(mese, anno) ==
    IF mese \in {4, 6, 9, 11} THEN 30
    ELSE IF mese = 2 THEN (IF anno % 4 = 0 THEN 29 ELSE 28)
    ELSE 31

ultimo_giorno(mese, anno) ==
    IF mese \in {4, 6, 9, 11} THEN 30
    ELSE IF mese = 2 THEN (IF (anno % 4 = 0 /\ anno % 100 # 0) \/ (anno % 400 = 0) THEN 29 ELSE 28)
    ELSE 31

giorno_corretto(giorno, mese, anno) ==
    IF giorno <= ultimo_giorno(mese, anno) THEN giorno ELSE ultimo_giorno(mese, anno)

\* the entry with the fallback in the month of the rule, not the selected one
DateEntry_rule_month(giorno, selected_year, selected_month) ==
    LET mese == mese_da_usare(giorno, selected_month)
        anno == anno_da_usare(giorno, selected_year, selected_month)
        gc == giorno_corretto(giorno, mese, anno)
    IN  IF ValidDate(anno, mese, gc)
        THEN [giorno |-> giorno, data |-> Date(anno, mese, gc),
              data_formattata |-> FormatDMY(gc, mese, anno)]
        ELSE [giorno |-> 1, data |-> Date(anno, mese, 1),
              data_formattata |-> FormatDMY(1, mese, anno)]

\* the entry as if datetime() accepted every date
DateEntry_no_fallback(giorno, selected_year, selected_month) ==
    LET mese == mese_da_usare(giorno, selected_month)
        anno == anno_da_usare(giorno, selected_year, selected_month)
        gc == giorno_corretto(giorno, mese, anno)
    IN  [giorno |-> giorno, data |-> Date(anno, mese, gc),
         data_formattata |-> FormatDMY(gc, mese, anno)]

\* the entry of one day: the clamped date, or day 1 of the selected month when
\* datetime() rejects the date (ValueError)
DateEntry(giorno, selected_year, selected_month) ==
    LET mese == mese_da_usare(giorno, selected_month)
        anno == anno_da_usare(giorno, selected_year, selected_month)
        gc == giorno_corretto(giorno, mese, anno)
    IN  IF ValidDate(anno, mese, gc)
        THEN [giorno |-> giorno, data |-> Date(anno, mese, gc),
              data_formattata |-> FormatDMY(gc, mese, anno)]
        ELSE [giorno |-> 1, data |-> Date(selected_year, selected_month, 1),
              data_formattata |-> FormatDMY(1, selected_month, selected_year)]

\* ------------------------------------------------------------ column names
\* A column name is a sequence of words and separators.
LowerWord(w) ==
    CASE w = "Codice" -> "codice" [] w = "Operatore" -> "operatore"
      [] w = "Descrizione" -> "descrizione" [] w = "Ragione" -> "ragione"
      [] w = "Azienda" -> "azienda" [] w = "Data" -> "data"
      [] w = "Dipendenti" -> "dipendenti" [] w = "Stage" -> "stage"
      [] w = "Parasub" -> "parasub" [] w = "Soci" -> "soci" [] w = "Altro" -> "altro"
      [] w = "Totale" -> "totale" [] w = "Fatturato" -> "fatturato"
      [] w = "Consegna" -> "consegna" [] w = "PDF" -> "pdf" [] w = "Note" -> "note"
      [] OTHER -> w

\* col.lower()
LowerName(col) == [i \in 1..Len(col) |-> LowerWord(col[i])]

\* the proper substrings of the words of the vocabulary that the code looks for
Substrings == {<<"soci", "sociale">>, <<"oper", "operatore">>}

Within(piece, word) == piece = word \/ <<piece, word>> \in Substrings

\* needle in name, for a needle of one or more words
Contains(name, needle) ==
    \E off \in 0..(Len(name) - Len(needle)) :
        \A j \in 1..Len(needle) :
            IF j = 1 \/ j = Len(needle) THEN Within(needle[j], name[off + j])
            ELSE needle[j] = name[off + j]

\* columns.str.strip().str.replace('\n', ' ')
CleanName(col) == ReplaceChar(Strip(col), "\n", " ")

CleanColumns(columns) == [i \in 1..Len(columns) |-> CleanName(columns[i])]

\* whether two columns have this name (then row[name] is not one value)
Duplicated(columns, name) ==
    \E i, j \in 1..Len(columns) : i # j /\ columns[i] = name /\ columns[j] = name

\* the position (from 1) of the first column with this name, 0 when there is none
ColIndex(columns, name) ==
    IF \E i \in 1..Len(columns) : columns[i] = name
    THEN CHOOSE i \in 1..Len(columns) : columns[i] = name /\ \A j \in 1..(i - 1) : columns[j] # name
    ELSE 0

\* next((i for i, col in enumerate(columns) if needle in col.lower()), None),
\* from 1, 0 for None
FirstContaining(columns, needles) ==
    LET hit(i) == \E n \in needles : Contains(LowerName(columns[i]), n)
    IN  IF \E i \in 1..Len(columns) : hit(i)
        THEN CHOOSE i \in 1..Len(columns) : hit(i) /\ \A j \in 1..(i - 1) : ~hit(j)
        ELSE 0

\* ---------------------------------------------------------------- the input
\* The tables of the model: a layout (the header) and rows given by the cells
\* of the columns the program reads; every other cell is missing.
TextCodice == <<"Codice">>
TextConsegna == <<"Consegna", " ", "PDF">>

Filler(i) == <<"X">> \o NatToStr(i)

\* the export the positional strategy expects: 36 columns, B = operator,
\* C = code, D = name, L..P = counts, AJ = progressive revenue
ColumnsCL ==
    [i \in 1..36 |->
        CASE i = 2 -> <<"Descrizione", " ", "operatore">>
          [] i = 3 -> <<"Codice">>
          [] i = 4 -> <<"Ragione", " ", "sociale">>
          [] i = 6 -> <<"Consegna", "\n", "PDF">>
          [] i = 7 -> <<" ", "Data">>
          [] i = 8 -> <<"Data", " ", "fine">>
          [] i = 12 -> <<"Dipendenti">>
          [] i = 13 -> <<"Stage">>
          [] i = 14 -> <<"Parasub">>
          [] i = 15 -> <<"Soci">>
          [] i = 16 -> <<"Altro">>
          [] i = 36 -> <<"Fatturato", " ", "progressivo">>
          [] OTHER -> Filler(i)]

RowCL(r) ==
    [i \in 1..36 |->
        CASE i = 2 -> r.op [] i = 3 -> r.cod [] i = 4 -> r.az [] i = 6 -> r.cons
          [] i = 7 -> r.data [] i = 8 -> r.fine [] i = 12 -> r.dip [] i = 13 -> r.stage [] i = 14 -> r.par
          [] i = 15 -> r.soci [] i = 16 -> r.altro [] i = 36 -> r.fatt
          [] OTHER -> Null]

\* a table with too few columns for the positional layout, the code first
ColumnsShort == <<<<"Codice">>, <<"Operatore">>, <<"Azienda">>, <<"Consegna", " ", "PDF">>>>

RowShort(r) == <<r.cod, r.op, r.az, r.cons>>

\* the same with a second delivery column, whose cleaned name is the same
ColumnsDup ==
    <<<<"Codice">>, <<"Operatore">>, <<"Azienda">>, <<"Consegna", " ", "PDF">>,
      <<"Consegna", "\n", "PDF">>>>

RowDup(r) == <<r.cod, r.op, r.az, r.cons, r.cons>>

\* one column, named after the operator or not
ColumnsOneOp == <<<<"Operatore">>>>

ColumnsOne == <<<<"Note">>>>

RowOneOp(r) == <<r.op>>

RowOne(r) == <<r.az>>

Layouts == {"CL", "Short", "Dup", "OneOp", "One"}

Table(layout, specs) ==
    CASE layout = "CL" -> [columns |-> ColumnsCL, rows |-> [i \in 1..Len(specs) |-> RowCL(specs[i])]]
      [] layout = "Short" -> [columns |-> ColumnsShort, rows |-> [i \in 1..Len(specs) |-> RowShort(specs[i])]]
      [] layout = "Dup" -> [columns |-> ColumnsDup, rows |-> [i \in 1..Len(specs) |-> RowDup(specs[i])]]
      [] layout = "OneOp" -> [columns |-> ColumnsOneOp, rows |-> [i \in 1..Len(specs) |-> RowOneOp(specs[i])]]
      [] OTHER -> [columns |-> ColumnsOne, rows |-> [i \in 1..Len(specs) |-> RowOne(specs[i])]]

T(s) == Txt(s)

BaseRow ==
    [op |-> T(<<"A">>), cod |-> T(<<"C", "1">>), az |-> T(<<"Z">>), cons |-> Null, data |-> Null,
     fine |-> Null,
     dip |-> IntCell(2), stage |-> IntCell(1), par |-> IntCell(0), soci |-> IntCell(4),
     altro |-> IntCell(0), fatt |-> Null]

\* the contents of a delivery cell
DeliveryCells ==
    {Null, T(<<>>), T(<<" ">>), T(<<"0">>), IntCell(0), FloatCell(Fin(0)),
     IntCell(20), FloatCell(Fin(1000)), T(<<" ", "1", "6">>), IntCell(15), IntCell(31),
     IntCell(29), IntCell(45), T(<<"a", "b", "c">>),
     T(<<"2", "0", "/", "0", "5", "/", "2", "0", "2", "4">>),
     T(<<"0", "/", "5", "/", "2", "0", "2", "4">>),
     T(<<"0", "4", "/", "0", "5", "/", "2", "0", "2", "4">>),
     T(<<"4", "5", "/", "0", "1", "/", "2", "0", "2", "4">>),
     T(<<"3", "0", "-", "0", "1", "-", "2", "0", "2", "4">>),
     DateCell(2024, 6, 10),
     T(<<"2", "0", ".", "0", "6", ".", "2", "0", "2", "4">>)}

Months == 1..12

\* a leap year, a common year, the two kinds of century year, datetime's last year
Years == {2000, 2023, 2024, 2100, 9999}

\* the rows of the tables of few columns: they differ in the operator, the
\* code and the delivery cell
RowPoolShort ==
    {BaseRow,
     [BaseRow EXCEPT !.op = T(<<"B", " ">>), !.cod = T(<<" ", "C", "2">>), !.cons = IntCell(10),
                     !.data = DateCell(2024, 7, 3), !.fine = DateCell(2024, 5, 30),
                     !.fatt = T(<<"€", " ", "4", "2">>),
                     !.stage = T(<<"-", "5">>)],
     [BaseRow EXCEPT !.op = Null, !.cod = T(<<>>), !.cons = IntCell(20), !.az = T(<<"C", "1">>),
                     !.altro = T(<<"1", ".", "2", "3", "4", ",", "5", "6">>)]}

\* the rows of the tables of several rows
RowPool ==
    RowPoolShort \cup
    {[BaseRow EXCEPT !.cons = IntCell(20), !.data = DateCell(2024, 6, 20), !.par = T(<<"1", ",", "5">>)],
     [BaseRow EXCEPT !.op = T(<<"B">>), !.cons = T(<<"0", "/", "5", "/", "2", "0", "2", "4">>),
                     !.dip = T(<<"N", "a", "n">>), !.par = IntCell(5),
                     !.data = T(<<"a", "b", "c">>)],
     [BaseRow EXCEPT !.cod = T(<<"C", "2">>), !.cons = T(<<"a", "b", "c">>), !.soci = T(<<"a", "b", "c">>),
                     !.data = DateCell(2024, 6, 5), !.altro = T(<<"i", "n", "f">>)]}

\* the rows a table of the layout is made of
RowPoolOf(layout) == IF layout = "CL" THEN RowPool ELSE RowPoolShort

RECURSIVE SeqsUpTo(_, _)
SeqsUpTo(S, n) ==
    IF n = 0 THEN {<<>>}
    ELSE SeqsUpTo(S, n - 1) \cup {Append(q, x) : q \in {p \in SeqsUpTo(S, n - 1) : Len(p) = n - 1}, x \in S}

\* ------------------------------------------------------------- period info
None == [none |-> TRUE]

EmptyDict == [empty |-> TRUE]

italian_months ==
    <<"gennaio", "febbraio", "marzo", "aprile", "maggio", "giugno", "luglio", "agosto",
      "settembre", "ottobre", "novembre", "dicembre">>

\* the override the caller builds from the selected month and year
ManualDateInfo(y, m) ==
    [period |-> [single |-> TRUE, from |-> Date(y, m, 1), to |-> Date(y, m, 1)],
     italian_month |-> italian_months[m],
     start_date |-> FormatDMY(1, m, y),
     end_date |-> FormatDMY(MonthRange(y, m), m, y),
     min_date |-> Date(y, m, 1),
     max_date |-> Date(y, m, MonthRange(y, m))]

\* the dtype of a column: datetime64 when it holds dates only, object when it
\* holds a text (or nothing at all), a number type otherwise
ColumnDtype(t, i) ==
    LET kinds == {t.rows[r][i].k : r \in 1..Len(t.rows)} \ {"null"}
    IN  IF kinds = {"date"} THEN "datetime"
        ELSE IF kinds = {} \/ "str" \in kinds \/ "date" \in kinds THEN "object"
        ELSE "number"

\* df[col].dropna().head(5)
Sample(t, i) ==
    LET vals == SelectSeq([r \in 1..Len(t.rows) |-> t.rows[r][i]], LAMBDA c : ~IsNa(c))
    IN  SubSeq(vals, 1, IF Len(vals) < 5 THEN Len(vals) ELSE 5)

\* the candidate date columns, as the set of their positions
DateColumns(t) ==
    LET byName == {i \in 1..Len(t.columns) : Contains(LowerName(t.columns[i]), <<"data">>)}
        looksLikeDate(i) ==
            IF ColumnDtype(t, i) = "object"
            THEN \E j \in 1..Len(Sample(t, i)) :
                    Sample(t, i)[j].k = "str" /\ HasChar(Sample(t, i)[j].s, "/")
            ELSE ColumnDtype(t, i) = "datetime"
    IN  IF byName # {} THEN byName ELSE {i \in 1..Len(t.columns) : looksLikeDate(i)}

\* df[col].dtype at line 42 raises when no name holds 'data' and two columns
\* have one name (df[col] is then a frame)
ScanRaises(t) ==
    /\ \A i \in 1..Len(t.columns) : ~Contains(LowerName(t.columns[i]), <<"data">>)
    /\ \E i \in 1..Len(t.columns) : Duplicated(t.columns, t.columns[i])

\* the dates of the candidate columns that parse
ParsedDates(t, cols) ==
    {GenericDate(t.rows[r][i])[1] :
        <<r, i>> \in {x \in (1..Len(t.rows)) \X cols : GenericDate(t.rows[x[1]][x[2]]) # <<>>}}

\* the latest date taken for the earliest
MinDate_latest(S) == CHOOSE d \in S : \A e \in S : ~DateLess(d, e)

MinDate(S) == CHOOSE d \in S : \A e \in S : ~DateLess(e, d)

MaxDate(S) == CHOOSE d \in S : \A e \in S : ~DateLess(d, e)

\* the running minimum set by the first column with a date only, the running
\* maximum overwritten by every column with a date
calculate_period_dates_no_compare(t, cols, today) ==
    LET found == ParsedDates(t, cols)
        dated == {i \in cols : ParsedDates(t, {i}) # {}}
        first == CHOOSE i \in dated : \A j \in dated : i <= j
        last == CHOOSE i \in dated : \A j \in dated : j <= i
        min_date == IF found = {} THEN Date(today.y, today.m, 1)
                    ELSE MinDate(ParsedDates(t, {first}))
        max_date == IF found = {} THEN Date(today.y, today.m, MonthRange(today.y, today.m))
                    ELSE MaxDate(ParsedDates(t, {last}))
    IN  [period |-> [single |-> (min_date.m = max_date.m /\ min_date.y = max_date.y),
                     from |-> Date(min_date.y, min_date.m, 1),
                     to |-> Date(max_date.y, max_date.m, 1)],
         start_date |-> FormatDMY(min_date.d, min_date.m, min_date.y),
         end_date |-> FormatDMY(max_date.d, max_date.m, max_date.y),
         min_date |-> min_date,
         max_date |-> max_date,
         italian_month |-> italian_months[min_date.m]]

calculate_period_dates(t, cols, today) ==
    LET found == ParsedDates(t, cols)
        min_date == IF found = {} THEN Date(today.y, today.m, 1) ELSE MinDate(found)
        max_date == IF found = {} THEN Date(today.y, today.m, MonthRange(today.y, today.m))
                    ELSE MaxDate(found)
    IN  [period |-> [single |-> (min_date.m = max_date.m /\ min_date.y = max_date.y),
                     from |-> Date(min_date.y, min_date.m, 1),
                     to |-> Date(max_date.y, max_date.m, 1)],
         start_date |-> FormatDMY(min_date.d, min_date.m, min_date.y),
         end_date |-> FormatDMY(max_date.d, max_date.m, max_date.y),
         min_date |-> min_date,
         max_date |-> max_date,
         italian_month |-> italian_months[min_date.m]]

\* ------------------------------------------------------------------- state
VARIABLES
    payroll_data,            \* the caller's table: [columns, rows]
    passed,                  \* the table as the caller passed it (never changed)
    manual_date_info,        \* the override, or None
    now,                     \* datetime.now()
    pc,                      \* where process_data (then its caller) stands
    df,                      \* the working copy
    date_info,               \* the period info in use
    scanned,                 \* whether the candidate date columns were looked for
    operatori_col,           \* position (from 1) of the operator column, 0 for None
    operatori,               \* the distinct operators, in first-seen order
    azienda_to_date_mapping, \* client code -> entry
    idx,                     \* rows the date pass has gone through
    rows,                    \* the records collected by the positional strategy
    rows_src,                \* for each of them, the row of df it comes from
    processed_data,          \* the returned records
    out_src,                 \* for each of them, the row of df it comes from
    returned_info,           \* the returned period info
    groups,                  \* the caller's per-operator groups
    arg,                     \* the argument of a call of a helper of utils.py
    ret                      \* what that call returned

vars ==
    <<payroll_data, passed, manual_date_info, now, pc, df, date_info, scanned, operatori_col,
      operatori, azienda_to_date_mapping, idx, rows, rows_src, processed_data, out_src,
      returned_info, groups, arg, ret>>

selected_year == date_info.min_date.y

selected_month == date_info.min_date.m

\* ---------------------------------------------------------- the date pass
EmptyMapping == [c \in {} |-> SentinelEntry]

\* an entry already stored is kept
Put_keep_first(mapping, cod, entry) ==
    [c \in (DOMAIN mapping) \cup {cod} |-> IF c \in DOMAIN mapping THEN mapping[c] ELSE entry]

Put(mapping, cod, entry) ==
    [c \in (DOMAIN mapping) \cup {cod} |-> IF c = cod THEN entry ELSE mapping[c]]

\* what one row of the date pass does:
\*   "keyerror"  row['Codice'] raises, the row is left (except Exception: continue)
\*   "nocode"    the code is empty, the row is left
\*   "ambiguous" two columns are named 'Consegna PDF': pd.isnull(data_val) is
\*               not one truth value, line 98 raises, the row is left
\*   "sentinel"  the delivery cell is empty or "0"
\*   "invalid"   datetime() raises ValueError: day 1 of the selected month
\*   "dated"     the clamped date
RowOutcome(columns, row, sy, sm) ==
    LET ci == ColIndex(columns, TextCodice)
        di == ColIndex(columns, TextConsegna)
        data_val == IF di = 0 THEN Null ELSE row[di]
        giorno == ResolveDay(data_val)
        mese == mese_da_usare(giorno, sm)
        anno == anno_da_usare(giorno, sy, sm)
    IN  IF ci = 0 THEN "keyerror"
        ELSE IF Strip(StrOf(row[ci])) = <<>> THEN "nocode"
        ELSE IF Duplicated(columns, TextConsegna) THEN "ambiguous"
        ELSE IF IsSentinelCell(data_val) THEN "sentinel"
        ELSE IF ValidDate(anno, mese, giorno_corretto(giorno, mese, anno)) THEN "dated"
        ELSE "invalid"

DateStep(mapping, columns, row, sy, sm) ==
    LET ci == ColIndex(columns, TextCodice)
        di == ColIndex(columns, TextConsegna)
        cod_azienda == Strip(StrOf(row[ci]))
        data_val == IF di = 0 THEN Null ELSE row[di]
    IN  IF ci = 0 THEN mapping
        ELSE IF cod_azienda = <<>> THEN mapping
        ELSE IF Duplicated(columns, TextConsegna) THEN mapping
        ELSE IF IsSentinelCell(data_val) THEN Put(mapping, cod_azienda, SentinelEntry)
        ELSE Put(mapping, cod_azienda, DateEntry(ResolveDay(data_val), sy, sm))

\* ----------------------------------------------------- the record builder
\* astype(str).str.strip() of a column
StripColumn(t, i) ==
    [t EXCEPT !.rows = [r \in 1..Len(t.rows) |->
                           [t.rows[r] EXCEPT ![i] = Txt(Strip(StrOf(t.rows[r][i])))]]]

\* == of two values of a column (a missing value is equal to nothing)
CellEq(a, b) == ~IsNa(a) /\ ~IsNa(b) /\ a = b

\* unique(): the distinct values in first-seen order (the missing values are one)
RECURSIVE Unique(_)
Unique(cells) ==
    IF cells = <<>> THEN <<>>
    ELSE LET init == Unique(SubSeq(cells, 1, Len(cells) - 1))
             last == cells[Len(cells)]
         IN  IF \E i \in 1..Len(init) : init[i] = last \/ (IsNa(init[i]) /\ IsNa(last))
             THEN init ELSE Append(init, last)

Column(t, i) == [r \in 1..Len(t.rows) |-> t.rows[r][i]]

\* the rows of one operator from the last to the first
RowsOf_last_first(t, col, operatore) ==
    LET hits == SelectSeq([r \in 1..Len(t.rows) |-> r], LAMBDA r : CellEq(t.rows[r][col], operatore))
    IN  [i \in 1..Len(hits) |-> hits[Len(hits) + 1 - i]]

\* the rows of df in the order the two nested loops visit them
RowsOf(t, col, operatore) ==
    SelectSeq([r \in 1..Len(t.rows) |-> r], LAMBDA r : CellEq(t.rows[r][col], operatore))

RECURSIVE Order(_, _, _)
Order(t, col, ops) ==
    IF ops = <<>> THEN <<>>
    ELSE RowsOf(t, col, Head(ops)) \o Order(t, col, Tail(ops))

\* row.iloc[i] if len(row) > i else default   (i counted from 0)
At(row, i, default) == IF Len(row) > i THEN row[i + 1] ELSE default

\* a missing column counted as one
FloatAt_one_when_missing(row, i) == IF Len(row) > i THEN to_float(row[i + 1]) ELSE Fin(100)

FloatAt(row, i) == IF Len(row) > i THEN to_float(row[i + 1]) ELSE Fin(0)

Totale(dipendenti, parasub, altro) == FAdd(FAdd(dipendenti, parasub), altro)

TotaleImporto(fatturato, totale) == IF FPositive(fatturato) THEN fatturato ELSE FTimes100(totale)

\* the lookup with the code as it is in the cell, not trimmed
DateStr_untrimmed(mapping, codice, info) ==
    IF StrOf(codice) \in DOMAIN mapping
    THEN mapping[StrOf(codice)].data_formattata
    ELSE info.start_date

\* the delivery-date string of a record
DateStr(mapping, codice, info) ==
    LET cod_azienda_str == Strip(StrOf(codice))
    IN  IF cod_azienda_str \in DOMAIN mapping
        THEN mapping[cod_azienda_str].data_formattata
        ELSE info.start_date

MakeRecord(operatore, row, mapping, info) ==
    LET codice == At(row, 2, Txt(<<>>))
        azienda == At(row, 3, Txt(<<>>))
        dipendenti == FAdd(FAdd(Fin(0), FloatAt(row, 11)), FloatAt(row, 12))
        parasub == FloatAt(row, 13)
        altro == FloatAt(row, 15)
        soci == FloatAt(row, 14)
        totale == Totale(dipendenti, parasub, altro)
        fatturato == FloatAt(row, 35)
    IN  [Operatore |-> operatore, Codice |-> codice, Azienda |-> azienda,
         DIP |-> FloatCell(dipendenti), PARAS |-> FloatCell(parasub), ALTRO |-> FloatCell(altro),
         TOT |-> FloatCell(totale), SOCI |-> FloatCell(soci), NOTE |-> <<>>,
         Data |-> DateStr(mapping, codice, info),
         TotaleImporto |-> TotaleImporto(fatturato, totale)]

\* processed_data[col].apply(to_float) for the five count columns
Normalize(recs) ==
    [i \in 1..Len(recs) |->
        [recs[i] EXCEPT !.DIP = to_float(@), !.PARAS = to_float(@), !.ALTRO = to_float(@),
                        !.TOT = to_float(@), !.SOCI = to_float(@)]]

\* the name-based strategy: each field from the first column whose name holds
\* one of its tokens, 0 or "" when there is none; TOT is recomputed when it is
\* zero everywhere
ByName(t, info) ==
    LET pick(needles) == FirstContaining(t.columns, needles)
        cell(r, needles, default) ==
            IF pick(needles) = 0 THEN default ELSE t.rows[r][pick(needles)]
        tot(r) == cell(r, {<<"totale">>}, IntCell(0))
        dip(r) == cell(r, {<<"dipendenti">>}, IntCell(0))
        par(r) == cell(r, {<<"parasub">>}, IntCell(0))
        alt(r) == cell(r, {<<"altro">>}, IntCell(0))
        zero(c) == c.k \in {"int", "float"} /\ DirectFloat(c) = Fin(0)
        allZero == \A r \in 1..Len(t.rows) : zero(tot(r))
        total(r) == IF allZero
                    THEN FloatCell(FAdd(FAdd(DirectFloat(dip(r)), DirectFloat(par(r))), DirectFloat(alt(r))))
                    ELSE tot(r)
        fc == pick({<<"fatturato", " ", "progressivo">>})
    IN  [r \in 1..Len(t.rows) |->
            [Operatore |-> cell(r, {<<"operatore">>, <<"descrizione", " ", "oper">>}, Txt(<<>>)),
             Codice |-> cell(r, {<<"codice">>}, Txt(<<>>)),
             Azienda |-> cell(r, {<<"ragione", " ", "sociale">>, <<"azienda">>}, Txt(<<>>)),
             DIP |-> dip(r), PARAS |-> par(r), ALTRO |-> alt(r), TOT |-> total(r),
             SOCI |-> cell(r, {<<"soci">>}, IntCell(0)),
             Data |-> info.start_date,
             TotaleImporto |-> IF fc # 0 THEN to_float(t.rows[r][fc])
                               ELSE FTimes100(to_float(total(r)))]]

\* the grouping that passes over the first operator
GroupBy_from_second(recs) ==
    LET employees == Tail(Unique([i \in 1..Len(recs) |-> recs[i].Operatore]))
    IN  [e \in 1..Len(employees) |->
            [employee |-> employees[e],
             members |-> SelectSeq([i \in 1..Len(recs) |-> i],
                                   LAMBDA i : CellEq(recs[i].Operatore, employees[e]))]]

\* the caller's grouping: for each distinct operator of the records, the
\* positions of the records whose operator is equal to it
GroupBy(recs) ==
    LET employees == Unique([i \in 1..Len(recs) |-> recs[i].Operatore])
    IN  [e \in 1..Len(employees) |->
            [employee |-> employees[e],
             members |-> SelectSeq([i \in 1..Len(recs) |-> i],
                                   LAMBDA i : CellEq(recs[i].Operatore, employees[e]))]]

\* -------------------------------------------------------------------- Init
Start(table, manual, today) ==
    /\ payroll_data = table
    /\ passed = table
    /\ manual_date_info = manual
    /\ now = today
    /\ pc = "start"
    /\ df = table
    /\ date_info = None
    /\ scanned = FALSE
    /\ operatori_col = 0
    /\ operatori = <<>>
    /\ azienda_to_date_mapping = EmptyMapping
    /\ idx = 0
    /\ rows = <<>>
    /\ rows_src = <<>>
    /\ processed_data = <<>>
    /\ out_src = <<>>
    /\ returned_info = None
    /\ groups = <<>>
    /\ arg = None
    /\ ret = None

\* one client row, every delivery cell, every selected month of every year
InitDayRule ==
    \E c \in DeliveryCells, y \in Years, m \in Months :
        Start(Table("CL", <<[BaseRow EXCEPT !.cons = c]>>), ManualDateInfo(y, m), Date(2026, 11, 5))

\* every table of up to MaxRows rows, in every layout, with an override
InitTables ==
    \E layout \in Layouts : \E specs \in SeqsUpTo(RowPoolOf(layout), MaxRows) :
        \E p \in (IF layout = "CL" THEN {<<2024, 12>>, <<2023, 6>>} ELSE {<<2023, 6>>}) :
            Start(Table(layout, specs), ManualDateInfo(p[1], p[2]), Date(2026, 11, 5))

\* tables without an override: the period comes from the table
InitDerived ==
    \E layout \in {"CL", "Dup", "OneOp"} : \E specs \in SeqsUpTo(RowPoolOf(layout), MaxRows) :
        \E today \in (IF layout = "CL" THEN {Date(2026, 11, 5), Date(2024, 2, 29)}
                       ELSE {Date(2026, 11, 5)}) :
            Start(Table(layout, specs), None, today)

Init == InitDayRule \/ InitTables \/ InitDerived

\* ----------------------------------------------------------------- actions
\* When each step can be taken: the conditions and the raised exceptions that
\* lead the code to it.
CleanAndCopyEnabled == pc = "start"

ResolvePeriodEnabled == pc = "period" /\ (manual_date_info # None \/ ~ScanRaises(df))

CrashScanEnabled == pc = "period" /\ manual_date_info = None /\ ScanRaises(df)

FindOperatorsEnabled == pc = "operators" /\ Len(df.columns) > 0

DateRowEnabled == pc = "dates" /\ idx < Len(df.rows)

RecordRowEnabled == pc = "records" /\ operatori_col # 0

\* the failure of df.iloc[:, None] taken as never handled
CrashEnabled_never == FALSE

CrashEnabled == pc = "records" /\ operatori_col = 0

BuildFromRowsEnabled == pc = "build" /\ rows # <<>>

BuildByNameEnabled == pc = "build" /\ rows = <<>>

GroupEnabled == pc = "returned" /\ processed_data # <<>>

\* lines 23-29: the column names are cleaned on the caller's table, then copied
CleanAndCopy ==
    /\ CleanAndCopyEnabled
    /\ payroll_data' = [payroll_data EXCEPT !.columns = CleanColumns(@)]
    /\ df' = payroll_data'
    /\ pc' = "period"
    /\ UNCHANGED <<arg, ret, passed, manual_date_info, now, date_info, scanned, operatori_col, operatori,
                   azienda_to_date_mapping, idx, rows, rows_src, processed_data, out_src,
                   returned_info, groups>>

\* lines 31-55: the override, or the period of the candidate date columns
ResolvePeriod ==
    /\ ResolvePeriodEnabled
    /\ IF manual_date_info # None
       THEN /\ date_info' = manual_date_info
            /\ scanned' = scanned
       ELSE /\ date_info' = calculate_period_dates(df, DateColumns(df), now)
            /\ scanned' = TRUE
    /\ pc' = "operators"
    /\ UNCHANGED <<arg, ret, payroll_data, passed, manual_date_info, now, df, operatori_col, operatori,
                   azienda_to_date_mapping, idx, rows, rows_src, processed_data, out_src,
                   returned_info, groups>>

\* lines 63-85: column B, else the column named after the operator, else the
\* first column (and then operatori_col stays None)
OperatorColumn(columns) ==
    IF 1 < Len(columns) THEN 2 ELSE FirstContaining(columns, {<<"operatore">>})

FindOperators ==
    /\ FindOperatorsEnabled
    /\ LET col == OperatorColumn(df.columns)
           used == IF col # 0 THEN col ELSE 1
       IN  /\ operatori_col' = col
           /\ df' = StripColumn(df, used)
           /\ operatori' = Unique(Column(df', used))
    /\ azienda_to_date_mapping' = EmptyMapping
    /\ pc' = IF Len(df.rows) = 0 THEN "build" ELSE "dates"
    /\ UNCHANGED <<arg, ret, payroll_data, passed, manual_date_info, now, date_info, scanned, idx, rows,
                   rows_src, processed_data, out_src, returned_info, groups>>

\* lines 88-197: one row of the date pass
DateRow ==
    /\ DateRowEnabled
    /\ azienda_to_date_mapping' =
           DateStep(azienda_to_date_mapping, df.columns, df.rows[idx + 1], selected_year, selected_month)
    /\ idx' = idx + 1
    /\ pc' = IF idx + 1 = Len(df.rows) THEN "records" ELSE "dates"
    /\ UNCHANGED <<arg, ret, payroll_data, passed, manual_date_info, now, df, date_info, scanned,
                   operatori_col, operatori, rows, rows_src, processed_data, out_src,
                   returned_info, groups>>

\* lines 201-256: one row of one operator
RecordRow ==
    /\ RecordRowEnabled
    /\ LET order == Order(df, operatori_col, operatori)
           r == order[Len(rows) + 1]
       IN  /\ rows' = Append(rows, MakeRecord(df.rows[r][operatori_col], df.rows[r],
                                              azienda_to_date_mapping, date_info))
           /\ rows_src' = Append(rows_src, r)
           /\ pc' = IF Len(rows) + 1 = Len(order) THEN "build" ELSE "records"
    /\ UNCHANGED <<arg, ret, payroll_data, passed, manual_date_info, now, df, date_info, scanned,
                   operatori_col, operatori, azienda_to_date_mapping, idx, processed_data,
                   out_src, returned_info, groups>>

\* lines 259-260 and 301-306: the collected records, normalised and returned
BuildFromRows ==
    /\ BuildFromRowsEnabled
    /\ processed_data' = Normalize(rows)
    /\ out_src' = rows_src
    /\ returned_info' = date_info
    /\ pc' = "returned"
    /\ UNCHANGED <<arg, ret, payroll_data, passed, manual_date_info, now, df, date_info, scanned,
                   operatori_col, operatori, azienda_to_date_mapping, idx, rows, rows_src, groups>>

\* lines 261-306: no record was collected: the name-based strategy
BuildByName ==
    /\ BuildByNameEnabled
    /\ processed_data' = Normalize(ByName(df, date_info))
    /\ out_src' = [r \in 1..Len(df.rows) |-> r]
    /\ returned_info' = date_info
    /\ pc' = "returned"
    /\ UNCHANGED <<arg, ret, payroll_data, passed, manual_date_info, now, df, date_info, scanned,
                   operatori_col, operatori, azienda_to_date_mapping, idx, rows, rows_src, groups>>

\* lines 308-310: df.iloc[:, None] raises at line 203 and the handler returns
\* an empty frame and an empty dict
Crash ==
    /\ CrashEnabled
    /\ processed_data' = <<>>
    /\ out_src' = <<>>
    /\ returned_info' = EmptyDict
    /\ pc' = "returned"
    /\ UNCHANGED <<arg, ret, payroll_data, passed, manual_date_info, now, df, date_info, scanned,
                   operatori_col, operatori, azienda_to_date_mapping, idx, rows, rows_src, groups>>

\* lines 41-42 and 308-310: the search for date-like columns raises
CrashScan ==
    /\ CrashScanEnabled
    /\ scanned' = TRUE
    /\ processed_data' = <<>>
    /\ out_src' = <<>>
    /\ returned_info' = EmptyDict
    /\ pc' = "returned"
    /\ UNCHANGED <<arg, ret, payroll_data, passed, manual_date_info, now, df, date_info, operatori_col,
                   operatori, azienda_to_date_mapping, idx, rows, rows_src, groups>>

\* src/app.py: the caller groups the records it got by operator
Group ==
    /\ GroupEnabled
    /\ groups' = GroupBy(processed_data)
    /\ pc' = "grouped"
    /\ UNCHANGED <<arg, ret, payroll_data, passed, manual_date_info, now, df, date_info, scanned,
                   operatori_col, operatori, azienda_to_date_mapping, idx, rows, rows_src,
                   processed_data, out_src, returned_info>>

Next ==
    \/ CleanAndCopy
    \/ ResolvePeriod
    \/ FindOperators
    \/ DateRow
    \/ RecordRow
    \/ BuildFromRows
    \/ BuildByName
    \/ Crash
    \/ CrashScan
    \/ Group

Spec == Init /\ [][Next]_vars

\* ------------------------------------------------------------------ checks
\* The row the date pass went through last, with its code, its delivery cell,
\* the day resolved from it and what the mapping holds for its code.
LastRow == df.rows[idx]

LastOutcome == RowOutcome(df.columns, LastRow, selected_year, selected_month)

LastCode == Strip(StrOf(LastRow[ColIndex(df.columns, TextCodice)]))

LastCell ==
    IF ColIndex(df.columns, TextConsegna) = 0 THEN Null
    ELSE LastRow[ColIndex(df.columns, TextConsegna)]

LastGiorno == ResolveDay(LastCell)

LastEntry == azienda_to_date_mapping[LastCode]

\* the date pass has just gone through a row and resolved a day for it
DayResolved ==
    /\ idx > 0 /\ pc \in {"dates", "records"} /\ rows = <<>>
    /\ LastOutcome \in {"dated", "invalid"}

Returned == pc \in {"returned", "grouped"}

MonthAfter(m) == IF m = 12 THEN 1 ELSE m + 1

YearOfMonthAfter(m, y) == IF m = 12 THEN y + 1 ELSE y

MonthYearRule ==
    IF LastGiorno > 15
    THEN LastEntry.data.m = selected_month /\ LastEntry.data.y = selected_year
    ELSE /\ LastEntry.data.m = MonthAfter(selected_month)
         /\ LastEntry.data.y = YearOfMonthAfter(selected_month, selected_year)

\* C1 as stated: for every resolved day d, the entry is in the selected month
\* and year when d > 15, and in the month after (of the next year after
\* December) when d <= 15.
C1_EveryDay == DayResolved => MonthYearRule

\* the date of the rule is one datetime() can hold: its year is at most 9999
YearInRange == LastGiorno > 15 \/ YearOfMonthAfter(selected_month, selected_year) <= 9999

\* C1 amended: the same, for every resolved day d >= 1 whose date is within
\* the years datetime() can hold.
C1_MonthYear == (DayResolved /\ LastGiorno >= 1 /\ YearInRange) => MonthYearRule

C1_Witness ==
    /\ DayResolved
    /\ LastGiorno \in 1..15
    /\ selected_month = 12
    /\ LastEntry.data.m = 1
    /\ LastEntry.data.y = selected_year + 1

\* the cells C2 is about: no cell, a missing value, a text that is empty or
\* "0" once trimmed, the integer 0
EmptyOrZero(c) ==
    \/ c.k = "null"
    \/ c.k = "str" /\ LStrip(RStrip(c.s)) \in {<<>>, <<"0">>}
    \/ c.k = "int" /\ c.n = 0

HasCode == ColIndex(df.columns, TextCodice) # 0 /\ LastCode # <<>>

OneDeliveryColumn == ~Duplicated(df.columns, TextConsegna)

Text01011900 == <<"0", "1", "/", "0", "1", "/", "1", "9", "0", "0">>

LastDayOfMonth(m, y) ==
    CASE m \in {4, 6, 9, 11} -> 30
      [] m = 2 -> IF (y % 4 = 0 /\ y % 100 # 0) \/ y % 400 = 0 THEN 29 ELSE 28
      [] OTHER -> 31

Smaller(a, b) == IF a < b THEN a ELSE b

ClampRule ==
    LastEntry.data.d = Smaller(LastGiorno, LastDayOfMonth(LastEntry.data.m, LastEntry.data.y))

\* C3 as stated: for every resolved day d, the day of the entry is
\* min(d, last day of the entry's month).
C3_EveryDay == DayResolved => ClampRule

\* C3 amended: the same, for every resolved day d >= 1 whose date is within
\* the years datetime() can hold.
C3_Clamp == (DayResolved /\ LastGiorno >= 1 /\ YearInRange) => ClampRule

C3_Witness ==
    /\ DayResolved
    /\ LastGiorno > 29
    /\ LastEntry.data = [y |-> 2024, m |-> 2, d |-> 29]

\* C4: every returned record has TOT = DIP + PARAS + ALTRO.
C4_TotalIsSum ==
    Returned =>
        \A i \in 1..Len(processed_data) :
            FEq(processed_data[i].TOT,
                FAdd(FAdd(processed_data[i].DIP, processed_data[i].PARAS), processed_data[i].ALTRO))

\* C5: the returned records are one per row of the table: as many as the rows,
\* each row the source of exactly one of them.
C5_OneRecordPerRow ==
    Returned =>
        /\ Len(processed_data) = Len(passed.rows)
        /\ \A r \in 1..Len(passed.rows) :
              Cardinality({i \in 1..Len(out_src) : out_src[i] = r}) = 1

\* C6: the caller's groups are a partition of the returned records: each
\* record is a member of exactly one group, once, and a group holds nothing
\* but records of its operator.
C6_Partition ==
    pc = "grouped" =>
        /\ \A i \in 1..Len(processed_data) :
              Cardinality({<<g, j>> \in (1..Len(groups)) \X (1..Len(processed_data)) :
                              j <= Len(groups[g].members) /\ groups[g].members[j] = i}) = 1
        /\ \A g \in 1..Len(groups) : \A j \in 1..Len(groups[g].members) :
              /\ groups[g].members[j] \in 1..Len(processed_data)
              /\ processed_data[groups[g].members[j]].Operatore = groups[g].employee

C6_Witness ==
    /\ pc = "grouped"
    /\ Len(groups) >= 2
    /\ \E g \in 1..Len(groups) : Len(groups[g].members) >= 2

\* C7: with an override, no candidate column is looked for and the returned
\* period info is the override.
C7_OverrideReturned ==
    (Returned /\ manual_date_info # None) => (~scanned /\ returned_info = manual_date_info)

\* a delivery cell from which no strategy gets a day
Unparseable(c) ==
    ~EmptyOrZero(c) /\ Strategy1(c) = <<>> /\ Strategy2(c) = <<>> /\ Strategy3(c) = <<>>

CodeOfRow(r) == Strip(StrOf(df.rows[r][ColIndex(df.columns, TextCodice)]))

CellOfRow(r) ==
    IF ColIndex(df.columns, TextConsegna) = 0 THEN Null
    ELSE df.rows[r][ColIndex(df.columns, TextConsegna)]

DatePassDone == pc \in {"records", "build", "returned", "grouped"} /\ idx = Len(df.rows)

\* C8: after the date pass every client code of the table has an entry, and
\* the entry is 01/01/1900 when the client's delivery cells are empty or
\* unparseable.
C8_EntryForEveryCode ==
    (DatePassDone /\ ColIndex(df.columns, TextCodice) # 0 /\ OneDeliveryColumn) =>
        \A r \in 1..Len(df.rows) :
            CodeOfRow(r) # <<>> =>
                /\ CodeOfRow(r) \in DOMAIN azienda_to_date_mapping
                /\ (\A q \in 1..Len(df.rows) :
                        CodeOfRow(q) = CodeOfRow(r) =>
                            (EmptyOrZero(CellOfRow(q)) \/ Unparseable(CellOfRow(q))))
                   => azienda_to_date_mapping[CodeOfRow(r)].data_formattata = Text01011900

FirstOfSelectedMonth ==
    [giorno |-> 1,
     data |-> [y |-> selected_year, m |-> selected_month, d |-> 1],
     data_formattata |-> Fmt02(1) \o <<"/">> \o Fmt02(selected_month) \o <<"/">> \o NatToStr(selected_year)]

C10_RecordDate ==
    Returned =>
        \A i \in 1..Len(processed_data) :
            LET key == Strip(StrOf(processed_data[i].Codice))
            IN  IF key \in DOMAIN azienda_to_date_mapping
                THEN processed_data[i].Data = azienda_to_date_mapping[key].data_formattata
                ELSE processed_data[i].Data = date_info.start_date

C10_Witness ==
    /\ Returned
    /\ \E i, j \in 1..Len(processed_data) :
          /\ Strip(StrOf(processed_data[i].Codice)) \in DOMAIN azienda_to_date_mapping
          /\ StrOf(processed_data[i].Codice) # Strip(StrOf(processed_data[i].Codice))
          /\ processed_data[i].Data # date_info.start_date
          /\ Strip(StrOf(processed_data[j].Codice)) \notin DOMAIN azienda_to_date_mapping
          /\ processed_data[j].Data = date_info.start_date

\* the progressive revenue of the row a record comes from, normalised
RevenueOf(i) == FloatAt(df.rows[out_src[i]], 35)

\* C11: the monetary magnitude of every returned record is the progressive
\* revenue of its row when that normalises to a positive number, and the
\* record's total times 100 otherwise.
C11_Magnitude ==
    Returned =>
        \A i \in 1..Len(processed_data) :
            IF FPositive(RevenueOf(i))
            THEN FEq(processed_data[i].TotaleImporto, RevenueOf(i))
            ELSE FEq(processed_data[i].TotaleImporto, FTimes100(processed_data[i].TOT))

NonNegativeFinite(x) == x.k = "fin" /\ x.c >= 0

\* C12: in every returned record each count field (DIP., PARAS., ALTRO, TOT.,
\* SOCI) is a finite number that is not negative.
C12_CountsNonNegativeFinite ==
    Returned =>
        \A i \in 1..Len(processed_data) :
            /\ NonNegativeFinite(processed_data[i].DIP)
            /\ NonNegativeFinite(processed_data[i].PARAS)
            /\ NonNegativeFinite(processed_data[i].ALTRO)
            /\ NonNegativeFinite(processed_data[i].TOT)
            /\ NonNegativeFinite(processed_data[i].SOCI)

\* ------------------------------------------------- the helpers of utils.py
\* to_float and format_currency called on their own: the argument is drawn from
\* every text of up to MaxLen characters of Alphabet, from the texts of
\* FixedTexts, and from cells that are not text.
MaxLen == 2

Alphabet == {"1", "5", ".", ",", "€", "$", " ", "-", "a"}

FixedTexts ==
    {<<"1", ".", "2", "3", "4", ",", "5", "6">>, <<"€", " ", "4", "2">>, <<"a", "b", "c">>,
     <<"N", "a", "n">>, <<"n", "a", "n">>, <<"i", "n", "f">>, <<"-", "I", "n", "f">>,
     <<"1", ".", "5">>, <<"1", ".", "5", "0">>, <<"1", ",", "5">>, <<"$", " ", "-", "1", ",", "5">>,
     <<"1", ".", "2", ".", "3">>, <<" ", "1", "2", " ">>, <<"4", "€", "2">>, <<"1", ",", "2", ",", "3">>,
     <<"€", " ", "1", ".", "2", "3", "4", ",", "5", "6", " ", "$">>}

NonTextValues ==
    {Null, FloatCell(NaN), FloatCell(Inf(FALSE)), FloatCell(Inf(TRUE)), IntCell(0), IntCell(7),
     IntCell(-3), FloatCell(Fin(123450)), FloatCell(Fin(-250)), DateCell(2024, 6, 10)}

ToFloatInputs == NonTextValues \cup {Txt(s) : s \in SeqsUpTo(Alphabet, MaxLen) \cup FixedTexts}

\* the amounts format_currency is called with, and the locales setlocale() may
\* find installed
Amounts ==
    {IntCell(n) : n \in {0, 7, 999, 1000, 1234567, -1000}}
        \cup {FloatCell(Fin(c)) : c \in {0, 5, 50, 99, 100, 99999, 100000, 123450, 123456,
                                         99999999, 100000000, 123456789, -5, -123450}}
        \cup {FloatCell(NaN), FloatCell(Inf(FALSE)), Null,
              Txt(<<"1", ".", "2", "3", "4", ",", "5", "6">>), Txt(<<"a", "b", "c">>)}

LocaleNames == {"it_IT.UTF-8", "it_IT"}

\* locale.setlocale(LC_ALL, 'it_IT.UTF-8'), else 'it_IT', else left as it was
SetLocale(available) ==
    IF "it_IT.UTF-8" \in available THEN "it_IT.UTF-8"
    ELSE IF "it_IT" \in available THEN "it_IT"
    ELSE "unchanged"

\* the digits of n with a "," before every group of three: format(n, ",")
RECURSIVE CommaGrouped(_)
CommaGrouped(n) ==
    IF n < 1000 THEN NatToStr(n)
    ELSE LET r == n % 1000
             pad == IF r < 10 THEN <<"0", "0">> ELSE IF r < 100 THEN <<"0">> ELSE <<>>
         IN  CommaGrouped(n \div 1000) \o <<",">> \o pad \o NatToStr(r)

\* f"{val:,.2f}" (a float of this model is a whole number of hundredths, so no
\* rounding takes place)
FormatComma2f(val) ==
    CASE val.k = "nan" -> <<"n", "a", "n">>
      [] val.k = "inf" -> (IF val.neg THEN <<"-">> ELSE <<>>) \o <<"i", "n", "f">>
      [] OTHER ->
            LET a == IF val.c < 0 THEN -val.c ELSE val.c
            IN  (IF val.c < 0 THEN <<"-">> ELSE <<>>) \o CommaGrouped(a \div 100) \o <<".">>
                    \o NatToStr((a % 100) \div 10) \o NatToStr(a % 10)

\* .replace(",", "X").replace(".", ",") without the last .replace("X", ".")
SwapSeparators_no_dots(s) == ReplaceChar(ReplaceChar(s, ",", "X"), ".", ",")

\* .replace(",", "X").replace(".", ",").replace("X", ".")
SwapSeparators(s) == ReplaceChar(ReplaceChar(ReplaceChar(s, ",", "X"), ".", ","), "X", ".")

format_currency(value, available) ==
    [text |-> <<"€", " ">> \o SwapSeparators(FormatComma2f(to_float(value))),
     lc_all |-> SetLocale(available)]

InitUtils ==
    /\ payroll_data = Table("One", <<>>)
    /\ passed = Table("One", <<>>)
    /\ manual_date_info = None
    /\ now = Date(2026, 11, 5)
    /\ df = Table("One", <<>>)
    /\ date_info = None
    /\ scanned = FALSE
    /\ operatori_col = 0
    /\ operatori = <<>>
    /\ azienda_to_date_mapping = EmptyMapping
    /\ idx = 0
    /\ rows = <<>>
    /\ rows_src = <<>>
    /\ processed_data = <<>>
    /\ out_src = <<>>
    /\ returned_info = None
    /\ groups = <<>>
    /\ ret = None
    /\ \/ pc = "to_float" /\ \E v \in ToFloatInputs : arg = [value |-> v]
       \/ pc = "format_currency"
            /\ \E v \in Amounts, l \in SUBSET LocaleNames : arg = [value |-> v, available |-> l]

ToFloat ==
    /\ pc = "to_float"
    /\ ret' = to_float(arg.value)
    /\ pc' = "done"
    /\ UNCHANGED <<arg, payroll_data, passed, manual_date_info, now, df, date_info, scanned,
                   operatori_col, operatori, azienda_to_date_mapping, idx, rows, rows_src,
                   processed_data, out_src, returned_info, groups>>

FormatCurrency ==
    /\ pc = "format_currency"
    /\ ret' = format_currency(arg.value, arg.available)
    /\ pc' = "done"
    /\ UNCHANGED <<arg, payroll_data, passed, manual_date_info, now, df, date_info, scanned,
                   operatori_col, operatori, azienda_to_date_mapping, idx, rows, rows_src,
                   processed_data, out_src, returned_info, groups>>

NextUtils == ToFloat \/ FormatCurrency

UtilsSpec == InitUtils /\ [][NextUtils]_vars

ToFloatDone == pc = "done" /\ "available" \notin DOMAIN arg

\* C13: to_float returns a finite number for every value: 0.0 for a missing
\* value and for a text that none of its parse attempts accepts.
C13_FiniteTotal ==
    ToFloatDone =>
        /\ ret.k = "fin"
        /\ arg.value = Null => ret = Fin(0)
        /\ arg.value = Txt(<<"a", "b", "c">>) => ret = Fin(0)

\* the text without currency symbols and surrounding whitespace
WithoutCurrency(s) == Strip(SelectSeq(s, LAMBDA c : c \notin {"€", "$"}))

\* the text read in European format: no "." and "," as the decimal point
ReadEuropean(s) ==
    LET digits == SelectSeq(s, LAMBDA c : c # ".")
    IN  [i \in 1..Len(digits) |-> IF digits[i] = "," THEN "." ELSE digits[i]]

\* C14: a text the direct parse accepts gives the value of the direct parse; a
\* text it rejects gives the value of the text, without currency symbols and
\* surrounding whitespace, read in European format (0.0 when that is no
\* number); "1.234,56" gives 1234.56 and "€ 42" gives 42.
C14_European ==
    (ToFloatDone /\ arg.value.k = "str") =>
        LET direct == ParseFloat(arg.value.s)
            european == ParseFloat(ReadEuropean(WithoutCurrency(arg.value.s)))
        IN  /\ direct.k # "err" => ret = direct
            /\ direct.k = "err" => ret = (IF european.k # "err" THEN european ELSE Fin(0))
            /\ arg.value.s = <<"1", ".", "2", "3", "4", ",", "5", "6">> => ret = Fin(123456)
            /\ arg.value.s = <<"€", " ", "4", "2">> => ret = Fin(4200)

C14_Witness ==
    /\ ToFloatDone
    /\ arg.value = Txt(<<"€", " ", "1", ".", "2", "3", "4", ",", "5", "6", " ", "$">>)
    /\ ret = Fin(123456)

\* three digits, with leading zeros
ThreeDigits(n) == NatToStr(n \div 100) \o NatToStr((n \div 10) % 10) \o NatToStr(n % 10)

\* the whole part of an amount below a million millions, with "." between its
\* groups of three digits
DotGrouped(n) ==
    IF n < 1000 THEN NatToStr(n)
    ELSE IF n < 1000000 THEN NatToStr(n \div 1000) \o <<".">> \o ThreeDigits(n % 1000)
    ELSE IF n < 1000000000
    THEN NatToStr(n \div 1000000) \o <<".">> \o ThreeDigits((n \div 1000) % 1000)
             \o <<".">> \o ThreeDigits(n % 1000)
    ELSE NatToStr(n \div 1000000000) \o <<".">> \o ThreeDigits((n \div 1000000) % 1000)
             \o <<".">> \o ThreeDigits((n \div 1000) % 1000) \o <<".">> \o ThreeDigits(n % 1000)

\* a finite amount as hundredths; an int or a float that is neither nan nor inf
IsAmount(v) == v.k = "int" \/ (v.k = "float" /\ v.x.k = "fin")

Hundredths(v) == IF v.k = "int" THEN 100 * v.n ELSE v.x.c

Magnitude(c) == IF c < 0 THEN -c ELSE c

CurrencyText(c) ==
    <<"€", " ">> \o (IF c < 0 THEN <<"-">> ELSE <<>>) \o DotGrouped(Magnitude(c) \div 100)
        \o <<",">> \o NatToStr((Magnitude(c) \div 10) % 10) \o NatToStr(Magnitude(c) % 10)

FormatDone == pc = "done" /\ "available" \in DOMAIN arg

\* C19: for every (finite) numeric amount format_currency returns the euro
\* sign, a space, and the amount with "." between the thousands, "," before
\* exactly two decimals, whichever locales are installed; 1234.5 gives
\* "€ 1.234,50".
C19_Currency ==
    (FormatDone /\ IsAmount(arg.value)) =>
        /\ ret.text = CurrencyText(Hundredths(arg.value))
        /\ arg.value = FloatCell(Fin(123450)) =>
              ret.text = <<"€", " ", "1", ".", "2", "3", "4", ",", "5", "0">>

C19_Witness ==
    /\ FormatDone
    /\ arg.value = FloatCell(Fin(123456789))
    /\ arg.available = {}
    /\ ret.text = <<"€", " ", "1", ".", "2", "3", "4", ".", "5", "6", "7", ",", "8", "9">>

\* a table with rows that lacks some column of the positional layout (the
\* layout reads up to the 36th column)
TooFewColumns == Len(passed.rows) > 0 /\ Len(passed.columns) < 36

\* C15 as stated: for such a table the positional strategy collects no row
\* and the records, one per row, come from the name-based strategy.
C15_FallbackByName ==
    (Returned /\ TooFewColumns) => (rows = <<>> /\ Len(processed_data) = Len(passed.rows))

\* C15 amended: for such a table the positional strategy collects one record
\* per row, reading "" or 0 for each column the table lacks, and the
\* name-based strategy is not used; when the call fails (one column that is
\* not named after the operator, or a failing search for date columns) the
\* result is empty.
C15_PositionalDefaults ==
    (Returned /\ TooFewColumns) =>
        IF returned_info = EmptyDict THEN processed_data = <<>>
        ELSE /\ Len(rows) = Len(passed.rows)
             /\ Len(processed_data) = Len(rows)
             /\ \A i \in 1..Len(processed_data) :
                   LET row == df.rows[out_src[i]]
                       rec == processed_data[i]
                   IN  /\ rec.Operatore = row[operatori_col]
                       /\ rec.Codice = (IF Len(row) >= 3 THEN row[3] ELSE Txt(<<>>))
                       /\ rec.Azienda = (IF Len(row) >= 4 THEN row[4] ELSE Txt(<<>>))
                       /\ Len(row) < 12 =>
                             /\ rec.DIP = Fin(0) /\ rec.PARAS = Fin(0) /\ rec.ALTRO = Fin(0)
                             /\ rec.SOCI = Fin(0) /\ rec.TOT = Fin(0)
                             /\ rec.TotaleImporto = Fin(0)

C15_Witness ==
    /\ Returned
    /\ Len(passed.columns) = 1
    /\ Len(passed.rows) = 2
    /\ Len(rows) = 2
    /\ Len(processed_data) = 2
    /\ processed_data[1].Codice = Txt(<<>>)
    /\ processed_data[1].Operatore # processed_data[2].Operatore

\* some step of process_data can be taken
CanStep ==
    \/ CleanAndCopyEnabled \/ ResolvePeriodEnabled \/ CrashScanEnabled \/ FindOperatorsEnabled
    \/ DateRowEnabled \/ RecordRowEnabled \/ CrashEnabled \/ BuildFromRowsEnabled
    \/ BuildByNameEnabled

\* a bound on the steps that are left, for a table of n rows
Remaining ==
    LET n == Len(passed.rows)
    IN  CASE pc = "start" -> 7 + 2 * n
          [] pc = "period" -> 6 + 2 * n
          [] pc = "operators" -> 5 + 2 * n
          [] pc = "dates" -> 4 + n + (n - idx)
          [] pc = "records" -> 3 + (n - Len(rows))
          [] pc = "build" -> 2
          [] pc = "returned" -> 1
          [] OTHER -> 0

\* C16: process_data has no fatal path: until it has returned some step can
\* always be taken (a failure is a step to the handler), every step brings
\* the return nearer, and what is returned is a pair of a record collection
\* and a period info (the one in use, or the empty dict of the handler), the
\* collection empty for a table without rows.
C16_NoFatalPath ==
    /\ [](~Returned => CanStep)
    /\ [](Remaining >= 0)
    /\ [][Remaining' < Remaining]_vars
    /\ [](Returned =>
            /\ returned_info \in {date_info, EmptyDict}
            /\ Len(processed_data) <= Len(passed.rows)
            /\ Len(passed.rows) = 0 => processed_data = <<>>)

C16_Witness ==
    /\ Returned
    /\ Len(passed.rows) > 0
    /\ operatori_col = 0
    /\ operatori # <<>>
    /\ processed_data = <<>>
    /\ returned_info = EmptyDict

\* calculate_period_dates has just returned the period of the table
Derived == manual_date_info = None /\ date_info # None /\ pc = "operators"

\* the dates that parse in the candidate columns
DatesFound == ParsedDates(payroll_data, DateColumns(payroll_data))

OneMonth(D) == \A a, b \in D : a.m = b.m /\ a.y = b.y

IsEarliest(d, D) == d \in D /\ \A e \in D : ~DateLess(e, d)

IsLatest(d, D) == d \in D /\ \A e \in D : ~DateLess(d, e)

\* C17 as stated: when the dates found are all in one month, the start and the
\* end date are the first and the last day of that month; when they are not,
\* the earliest and the latest date found.
C17_MonthBoundaries ==
    Derived =>
        LET D == DatesFound
        IN  D # {} =>
                \E lo, hi \in D :
                    /\ IsEarliest(lo, D) /\ IsLatest(hi, D)
                    /\ IF OneMonth(D)
                       THEN /\ date_info.start_date = FormatDMY(1, lo.m, lo.y)
                            /\ date_info.end_date =
                                   FormatDMY(LastDayOfMonth(lo.m, lo.y), lo.m, lo.y)
                       ELSE /\ date_info.start_date = FormatDMY(lo.d, lo.m, lo.y)
                            /\ date_info.end_date = FormatDMY(hi.d, hi.m, hi.y)

\* C17 amended: the start and the end date are the earliest and the latest
\* date found, whether these are in one month or not.
C17_MinMax ==
    Derived =>
        LET D == DatesFound
        IN  D # {} =>
                \E lo, hi \in D :
                    /\ IsEarliest(lo, D) /\ IsLatest(hi, D)
                    /\ date_info.min_date = lo /\ date_info.max_date = hi
                    /\ date_info.start_date = FormatDMY(lo.d, lo.m, lo.y)
                    /\ date_info.end_date = FormatDMY(hi.d, hi.m, hi.y)

C17_Witness ==
    /\ Derived
    /\ Cardinality(DatesFound) = 2
    /\ OneMonth(DatesFound)
    /\ date_info.start_date = <<"0", "5", "/", "0", "6", "/", "2", "0", "2", "4">>
    /\ date_info.end_date = <<"2", "0", "/", "0", "6", "/", "2", "0", "2", "4">>

\* C18: when no candidate column holds a date that parses (or there is no
\* candidate column) the start and the end date are the first and the last
\* day of the current month, and the label is that of a single month.
C18_CurrentMonth ==
    Derived =>
        (DatesFound = {} =>
            /\ date_info.start_date = FormatDMY(1, now.m, now.y)
            /\ date_info.end_date = FormatDMY(LastDayOfMonth(now.m, now.y), now.m, now.y)
            /\ date_info.period.single
            /\ date_info.period.from = Date(now.y, now.m, 1))

C18_Witness ==
    /\ Derived
    /\ DateColumns(payroll_data) # {}
    /\ Len(payroll_data.rows) = 2
    /\ DatesFound = {}
    /\ now = Date(2024, 2, 29)
    /\ date_info.end_date = <<"2", "9", "/", "0", "2", "/", "2", "0", "2", "4">>

\* the day the entry of the last row records: the resolved day of a dated row
EntryDay == LastEntry.giorno

\* C20: the day of a delivery cell that is not a sentinel is that of the first
\* strategy that finds one, in the order (a) the cell as an integer in 1..31,
\* (b) the first component of a "/"- or "-"-separated string, of any size,
\* (c) the day of the generic parse; the day is 1 when none finds one.
C20_Order ==
    (DayResolved /\ LastOutcome = "dated") =>
        LET a == Strategy1(LastCell)
            b == Strategy2(LastCell)
            c == Strategy3(LastCell)
        IN  /\ ~IsSentinelCell(LastCell)
            /\ a # <<>> => EntryDay = a[1] /\ a[1] \in 1..31
            /\ (a = <<>> /\ b # <<>>) => EntryDay = b[1]
            /\ (a = <<>> /\ b = <<>> /\ c # <<>>) => EntryDay = c[1]
            /\ (a = <<>> /\ b = <<>> /\ c = <<>>) => EntryDay = 1

C20_Witness ==
    /\ DayResolved /\ LastOutcome = "dated"
    /\ LastCell = T(<<"0", "4", "/", "0", "5", "/", "2", "0", "2", "4">>)
    /\ Strategy1(LastCell) = <<>>
    /\ Strategy3(LastCell) = <<5>>
    /\ EntryDay = 4

\* the date pass has gone through every row and no record has been built yet
DatePassJustDone == pc = "records" /\ rows = <<>> /\ idx = Len(df.rows)

\* the rows of df that carry the code
RowsWithCode(k) == {r \in 1..Len(df.rows) : CodeOfRow(r) = k}

LastRowWithCode(k) == CHOOSE r \in RowsWithCode(k) : \A q \in RowsWithCode(k) : q <= r

\* the entry the date pass computes from one row alone
EntryOfRow(r) ==
    LET di == ColIndex(df.columns, TextConsegna)
        cell == IF di = 0 THEN Null ELSE df.rows[r][di]
    IN  IF IsSentinelCell(cell) THEN SentinelEntry
        ELSE DateEntry(ResolveDay(cell), selected_year, selected_month)

\* the per-row computation does not fail on this table
RowsComputable == ColIndex(df.columns, TextCodice) # 0 /\ ~Duplicated(df.columns, TextConsegna)

\* C21: when several rows carry one client code the mapping holds, after the
\* date pass, the entry computed from the last of them in table order, and
\* every returned record with that code carries the date string of that entry.
C21_LastRowWins ==
    /\ (DatePassJustDone /\ RowsComputable) =>
           \A r \in 1..Len(df.rows) :
               LET k == CodeOfRow(r)
               IN  k # <<>> =>
                       /\ k \in DOMAIN azienda_to_date_mapping
                       /\ azienda_to_date_mapping[k] = EntryOfRow(LastRowWithCode(k))
    /\ pc = "returned" =>
           \A i \in 1..Len(processed_data) :
               LET k == Strip(StrOf(processed_data[i].Codice))
               IN  k \in DOMAIN azienda_to_date_mapping =>
                       processed_data[i].Data = azienda_to_date_mapping[k].data_formattata

C21_Witness ==
    /\ pc = "returned"
    /\ Len(df.rows) = 2 /\ Len(processed_data) = 2
    /\ RowsComputable
    /\ CodeOfRow(1) = CodeOfRow(2)
    /\ EntryOfRow(1) # EntryOfRow(2)
    /\ azienda_to_date_mapping[CodeOfRow(1)] = EntryOfRow(2)
    /\ processed_data[1].Data = EntryOfRow(2).data_formattata
    /\ processed_data[2].Data = EntryOfRow(2).data_formattata

\* C22: within the records of one operator, the records are in the order of
\* their source rows in the table, in the returned records and in the group
\* the caller makes for the operator.
C22_RowOrder ==
    /\ pc = "returned" =>
           \A i, j \in 1..Len(processed_data) :
               (i < j /\ processed_data[i].Operatore = processed_data[j].Operatore) =>
                   out_src[i] < out_src[j]
    /\ pc = "grouped" =>
           \A g \in 1..Len(groups) : \A a, b \in 1..Len(groups[g].members) :
               a < b =>
                   /\ groups[g].members[a] < groups[g].members[b]
                   /\ out_src[groups[g].members[a]] < out_src[groups[g].members[b]]

C22_Witness ==
    /\ pc = "grouped"
    /\ out_src = <<1, 3, 2>>
    /\ Len(groups) = 2
    /\ groups[1].members = <<1, 2>>
    /\ processed_data[1].Operatore = processed_data[2].Operatore
    /\ processed_data[1].Codice # processed_data[2].Codice
    /\ passed.rows[1][2] # passed.rows[3][2]

NotAfter(a, b) == a = b \/ DateLess(a, b)

\* the period info has just been taken or computed
PeriodResolved == pc = "operators" /\ date_info # None

\* C23: the start date of every period info is not after its end date, and
\* the two display strings are those of these two dates.
C23_StartBeforeEnd ==
    PeriodResolved =>
        /\ NotAfter(date_info.min_date, date_info.max_date)
        /\ date_info.start_date =
               FormatDMY(date_info.min_date.d, date_info.min_date.m, date_info.min_date.y)
        /\ date_info.end_date =
               FormatDMY(date_info.max_date.d, date_info.max_date.m, date_info.max_date.y)
        /\ ValidDate(date_info.min_date.y, date_info.min_date.m, date_info.min_date.d)
        /\ ValidDate(date_info.max_date.y, date_info.max_date.m, date_info.max_date.d)

\* two candidate columns, an entry that does not parse, the earliest date in
\* one column and the latest in the other
C23_Witness ==
    /\ Derived
    /\ Cardinality(DateColumns(payroll_data)) = 2
    /\ \E r \in 1..Len(payroll_data.rows) : payroll_data.rows[r][7] = Txt(<<"a", "b", "c">>)
    /\ date_info.min_date = Date(2024, 5, 30)
    /\ date_info.max_date = Date(2024, 7, 3)
    /\ \E r \in 1..Len(payroll_data.rows) :
           /\ payroll_data.rows[r][8] = DateCell(2024, 5, 30)
           /\ payroll_data.rows[r][7] = DateCell(2024, 7, 3)

\* the date pass has just stored what it stores for a row
JustStored == idx > 0 /\ pc \in {"dates", "records"} /\ rows = <<>>

\* a date of the calendar, as C24 states it
CalendarDate(d) ==
    /\ d.m \in 1..12
    /\ 1 <= d.d /\ d.d <= LastDayOfMonth(d.m, d.y)
    /\ 1 <= d.y /\ d.y <= 9999

\* dd/mm/yyyy of a date, digit by digit
Display(d) ==
    <<NatToStr(d.d \div 10)[1], NatToStr(d.d % 10)[1], "/",
      NatToStr(d.m \div 10)[1], NatToStr(d.m % 10)[1], "/">> \o NatToStr(d.y)

\* C24: every entry of the mapping holds a date of the calendar, its display
\* string is that date, and its year is 1900, the selected year or the year
\* after the selected year.
C24_ValidEntries ==
    JustStored =>
        \A k \in DOMAIN azienda_to_date_mapping :
            LET e == azienda_to_date_mapping[k]
            IN  /\ CalendarDate(e.data)
                /\ e.data_formattata = Display(e.data)
                /\ e.data.y \in {1900, selected_year, selected_year + 1}
                /\ e.giorno >= 1

\* the first component 45 of February 2023 is stored as the 28th
C24_Witness ==
    /\ JustStored
    /\ LastCell = Txt(<<"4", "5", "/", "0", "1", "/", "2", "0", "2", "4">>)
    /\ selected_year = 2023 /\ selected_month = 2
    /\ LastEntry.giorno = 45
    /\ LastEntry.data = Date(2023, 2, 28)
    /\ LastEntry.data_formattata = <<"2", "8", "/", "0", "2", "/", "2", "0", "2", "3">>

\* C25: after process_data returns, the caller's table is as it was passed:
\* the same cells and the same column names.
C25_InputUnchanged ==
    Returned =>
        /\ payroll_data.rows = passed.rows
        /\ payroll_data.columns = passed.columns

====
